---- MODULE Spec2Model ----
(***************************************************************************)
(* A model of httptestutil (src/httptestutil.go, lines 1-251: the current  *)
(* version of the package).  A TestSet is built from Test(name, options...) *)
(* calls and TestSet.Run executes each case as a sub-test: pre-checks,      *)
(* http.NewRequest, request modifiers, handler.ServeHTTP on a recorder,     *)
(* response assertions, post-checks.                                        *)
(*                                                                         *)
(* Closures are modelled as records holding what the closure captured.      *)
(* Every closure additionally carries `id`, the position of the option that *)
(* registered it, so that the log can tell registrations apart.             *)
(***************************************************************************)
EXTENDS Integers, Sequences, FiniteSets, TLC

VARIABLES
    cases,      \* the arguments of the Test(...) calls of the set literal
    handler,    \* the handler under test: the response it always gives
    tests,      \* the TestSet (a sequence of TestConfig), once built
    pc,         \* position inside TestSet.Run
    cur,        \* index of the case the range loop is at
    req,        \* <<>> or <<r>>: the *http.Request of the running sub-test
    recorder,   \* <<>> or <<rr>>: the ResponseRecorder of the running sub-test
    t,          \* one entry per sub-test started with t.Run
    served,     \* the requests handler.ServeHTTP received
    log         \* history of what Run executed

vars == <<cases, handler, tests, pc, cur, req, recorder, t, served, log>>

(***************************************************************************)
(* Bounds of the model.                                                    *)
(***************************************************************************)
MaxCases == 2
MaxOptions == 2

(***************************************************************************)
(* Test options, as the caller writes them.                                *)
(***************************************************************************)
Opt(op, s1, s2, n, out, p) ==
    [op |-> op, s1 |-> s1, s2 |-> s2, n |-> n, out |-> out, p |-> p]

SeqsUpTo(S, n) == UNION {[1..k -> S] : k \in 0..n}

Range(s) == {s[i] : i \in DOMAIN s}

(***************************************************************************)
(* net/http as used by the package.                                        *)
(***************************************************************************)
EmptyHeader == [x \in {} |-> ""]

\* textproto.CanonicalMIMEHeaderKey, which Header.Set and Header.Get apply
CanonicalMIMEHeaderKey(key) ==
    CASE key = "content-type" -> "Content-Type"
      [] key = "x" -> "X"
      [] OTHER -> key

HeaderSet(h, key, value) ==
    LET k == CanonicalMIMEHeaderKey(key)
    IN  [x \in (DOMAIN h) \cup {k} |-> IF x = k THEN value ELSE h[x]]

HeaderGet(h, key) ==
    LET k == CanonicalMIMEHeaderKey(key)
    IN  IF k \in DOMAIN h THEN h[k] ELSE ""

\* http.NewRequest returns an error for a method that is no token and for a
\* route url.Parse rejects; the empty method stands for GET.
NewRequestErr_EmptyMethod(method, route) ==
    method \in {"", "BAD METHOD"} \/ route \in {"%zz"}

NewRequestErr(method, route) ==
    method \in {"BAD METHOD"} \/ route \in {"%zz"}

NewRequestValue(method, route, body) ==
    [Method |-> IF method = "" THEN "GET" ELSE method,
     URL    |-> route,
     Body   |-> body,
     Header |-> EmptyHeader]

(***************************************************************************)
(* encoding/json and regexp as used by the package.                        *)
(***************************************************************************)
\* json.Marshal of the values given to RequestJSON
Marshal(d) ==
    CASE d = "obj" -> "{\"a\":1}"
      [] OTHER -> "null"

Nil == [type |-> "nil", str |-> <<>>]
JsonString(s) == [type |-> "string", str |-> s]
JsonNumber == [type |-> "float64", str |-> <<>>]

\* json.Unmarshal(body, &response) with response a map[string]interface{}:
\* the error, and the map afterwards (nil, shown as the empty map, on error)
Unmarshal(body) ==
    CASE body = "{\"K\":\"ab\"}" ->
            [err |-> FALSE, response |-> [k \in {"K"} |-> JsonString(<<"a", "b">>)]]
      [] body = "{\"K\":\"b\"}" ->
            [err |-> FALSE, response |-> [k \in {"K"} |-> JsonString(<<"b">>)]]
      [] body = "{\"K\":7}" ->
            [err |-> FALSE, response |-> [k \in {"K"} |-> JsonNumber]]
      [] body = "{}" ->
            [err |-> FALSE, response |-> [k \in {} |-> Nil]]
      [] body = "[1]" ->
            [err |-> TRUE, response |-> [k \in {} |-> Nil]]
      [] OTHER ->
            [err |-> TRUE, response |-> [k \in {} |-> Nil]]

\* response[field] of a Go map: the nil interface for a missing key
MapIndex(response, field) ==
    IF field \in DOMAIN response THEN response[field] ELSE Nil

\* regexp.MatchString over patterns made of literals, ".", a leading "^" and
\* a trailing "$"; a pattern holding "(" does not compile (false, error).
MatchAt(core, s, i) ==
    /\ i + Len(core) - 1 <= Len(s)
    /\ \A j \in 1..Len(core) : core[j] = "." \/ core[j] = s[i + j - 1]

MatchString(pattern, s) ==
    /\ "(" \notin Range(pattern)
    /\ LET atStart == Len(pattern) > 0 /\ pattern[1] = "^"
           atEnd   == Len(pattern) > 0 /\ pattern[Len(pattern)] = "$"
           core    == SelectSeq(pattern, LAMBDA c : c \notin {"^", "$"})
       IN  \E i \in 1..(Len(s) + 1) :
              /\ atStart => i = 1
              /\ MatchAt(core, s, i)
              /\ atEnd => i + Len(core) - 1 = Len(s)

(***************************************************************************)
(* The options: each returns the TestConfig after the mutator has run.     *)
(***************************************************************************)
RequestMethod(method, test) == [test EXCEPT !.method = method]

RequestHeader_Prepend(id, header, value, test) ==
    [test EXCEPT !.modifiers =
        <<[id |-> id, header |-> header, value |-> value]>> \o @]

RequestHeader(id, header, value, test) ==
    [test EXCEPT !.modifiers =
        Append(@, [id |-> id, header |-> header, value |-> value])]

RequestJSON(id, d, test) ==
    [test EXCEPT !.modifiers =
        Append(@, [id |-> id, header |-> "Content-Type",
                   value |-> "application/json"]),
                 !.body = Marshal(d)]

RequestBody(body, test) == [test EXCEPT !.body = body]

RequestRel(rel, test) == [test EXCEPT !.route = rel]

responseAssertion(assertion, test) ==
    [test EXCEPT !.assertions = Append(@, assertion)]

Assertion(id, kind, s1, s2, n, p) ==
    [id |-> id, kind |-> kind, s1 |-> s1, s2 |-> s2, n |-> n, p |-> p]

ResponseStatus(id, expectedStatus, test) ==
    responseAssertion(Assertion(id, "ResponseStatus", "", "", expectedStatus, <<>>), test)

ResponseBody(id, expectedBody, test) ==
    responseAssertion(Assertion(id, "ResponseBody", expectedBody, "", 0, <<>>), test)

ResponseHeader(id, header, expected, test) ==
    responseAssertion(Assertion(id, "ResponseHeader", header, expected, 0, <<>>), test)

ResponseJsonField(id, field, expected, test) ==
    responseAssertion(Assertion(id, "ResponseJsonField", field, "", 0, expected), test)

ResponseJsonFieldPattern(id, field, pattern, test) ==
    responseAssertion(Assertion(id, "ResponseJsonFieldPattern", field, "", 0, pattern), test)

Before(check, test) ==
    [test EXCEPT !.precheck = Append(test.precheck, check)]

After(check, test) ==
    [test EXCEPT !.precheck = Append(test.postcheck, check)]

\* option(&test) for the option at position id of the argument list
ApplyOption(o, id, test) ==
    CASE o.op = "RequestMethod" -> RequestMethod(o.s1, test)
      [] o.op = "RequestHeader" -> RequestHeader(id, o.s1, o.s2, test)
      [] o.op = "RequestJSON" -> RequestJSON(id, o.s1, test)
      [] o.op = "RequestBody" -> RequestBody(o.s1, test)
      [] o.op = "RequestRel" -> RequestRel(o.s1, test)
      [] o.op = "ResponseStatus" -> ResponseStatus(id, o.n, test)
      [] o.op = "ResponseBody" -> ResponseBody(id, o.s1, test)
      [] o.op = "ResponseHeader" -> ResponseHeader(id, o.s1, o.s2, test)
      [] o.op = "ResponseJsonField" -> ResponseJsonField(id, o.s1, o.p, test)
      [] o.op = "ResponseJsonFieldPattern" -> ResponseJsonFieldPattern(id, o.s1, o.p, test)
      [] o.op = "Before" -> Before([id |-> id, outcome |-> o.out], test)
      [] o.op = "After" -> After([id |-> id, outcome |-> o.out], test)

RECURSIVE ApplyOptions(_, _, _)
ApplyOptions(options, id, test) ==
    IF id > Len(options) THEN test
    ELSE ApplyOptions(options, id + 1, ApplyOption(options[id], id, test))

Test(name, options) ==
    ApplyOptions(options, 1,
        [name |-> name, method |-> "", route |-> "", body |-> "",
         modifiers |-> <<>>, assertions |-> <<>>,
         precheck |-> <<>>, postcheck |-> <<>>])

(***************************************************************************)
(* What the closures do when Run calls them.  An assertion yields the      *)
(* messages it passes to t.Errorf, in order.                               *)
(***************************************************************************)
ResponseStatusCheck_Inverted(expectedStatus, rr) ==
    IF expectedStatus = rr.Code THEN <<"Unexpected status code">> ELSE <<>>

ResponseStatusCheck(expectedStatus, rr) ==
    IF expectedStatus # rr.Code THEN <<"Unexpected status code">> ELSE <<>>

ResponseBodyCheck(expectedBody, rr) ==
    IF rr.Body # expectedBody THEN <<"Unexpected body">> ELSE <<>>

ResponseHeaderCheck(header, expected, rr) ==
    IF HeaderGet(rr.Header, header) # expected
    THEN <<"Unexpected response header value">> ELSE <<>>

ResponseJsonFieldCheck(field, expected, rr) ==
    LET u == Unmarshal(rr.Body)
        v == MapIndex(u.response, field)
    IN  (IF u.err THEN <<"Could not JSON parse response body">> ELSE <<>>)
        \o (IF ~(v.type = "string" /\ v.str = expected)
            THEN <<"Unexpected JSON field value">> ELSE <<>>)

ResponseJsonFieldPatternCheck_SkipNonString(field, pattern, rr) ==
    LET u == Unmarshal(rr.Body)
        v == MapIndex(u.response, field)
    IN  (IF u.err THEN <<"Could not JSON parse response body">> ELSE <<>>)
        \o (IF v.type = "string" /\ ~MatchString(pattern, v.str)
            THEN <<"Unexpected JSON field value">> ELSE <<>>)

ResponseJsonFieldPatternCheck(field, pattern, rr) ==
    LET u == Unmarshal(rr.Body)
        v == MapIndex(u.response, field)
    IN  (IF u.err THEN <<"Could not JSON parse response body">> ELSE <<>>)
        \o (IF v.type = "string"
            THEN (IF ~MatchString(pattern, v.str)
                  THEN <<"Unexpected JSON field value">> ELSE <<>>)
            ELSE <<"Unexepected missing or non-string JSON field value">>)

\* assert(t, recorder)
CallAssertion(a, rr) ==
    CASE a.kind = "ResponseStatus" -> ResponseStatusCheck(a.n, rr)
      [] a.kind = "ResponseBody" -> ResponseBodyCheck(a.s1, rr)
      [] a.kind = "ResponseHeader" -> ResponseHeaderCheck(a.s1, a.s2, rr)
      [] a.kind = "ResponseJsonField" -> ResponseJsonFieldCheck(a.s1, a.p, rr)
      [] a.kind = "ResponseJsonFieldPattern" -> ResponseJsonFieldPatternCheck(a.s1, a.p, rr)

\* check(t) of a caller-supplied Check: it passes, calls t.Error ("fail") or
\* calls t.Fatal ("fatal")
CallCheck(check) ==
    IF check.outcome = "pass" THEN <<>> ELSE <<"check failed">>

Event(case, ev, id, errs) == [case |-> case, ev |-> ev, id |-> id, errs |-> errs]

\* a loop over a list of checks: it stops when a check calls t.Fatal
ChecksRun(checks) ==
    LET fatals == {i \in DOMAIN checks : checks[i].outcome = "fatal"}
        last   == IF fatals = {} THEN Len(checks)
                  ELSE CHOOSE i \in fatals : \A j \in fatals : i <= j
    IN  [ran   |-> SubSeq(checks, 1, last),
         fatal |-> fatals # {}]

ChecksEvents(case, ev, ran) ==
    [i \in 1..Len(ran) |-> Event(case, ev, ran[i].id, CallCheck(ran[i]))]

\* the loop over test.modifiers
RECURSIVE ApplyModifiers(_, _, _)
ApplyModifiers(modifiers, i, r) ==
    IF i > Len(modifiers) THEN r
    ELSE ApplyModifiers(modifiers, i + 1,
            [r EXCEPT !.Header = HeaderSet(@, modifiers[i].header, modifiers[i].value)])

\* the loop over test.assertions
RunAssertions_StopAtFailure(case, assertions, rr) ==
    LET bad  == {i \in DOMAIN assertions : CallAssertion(assertions[i], rr) # <<>>}
        last == IF bad = {} THEN Len(assertions)
                ELSE CHOOSE i \in bad : \A j \in bad : i <= j
    IN  [i \in 1..last |->
            Event(case, "assertion", assertions[i].id, CallAssertion(assertions[i], rr))]

RunAssertions(case, assertions, rr) ==
    [i \in 1..Len(assertions) |->
        Event(case, "assertion", assertions[i].id, CallAssertion(assertions[i], rr))]

AnyErrors(events) == \E i \in DOMAIN events : events[i].errs # <<>>

AllErrors(events) ==
    LET RECURSIVE Cat(_)
        Cat(i) == IF i > Len(events) THEN <<>> ELSE events[i].errs \o Cat(i + 1)
    IN  Cat(1)

\* t.Errorf / t.Fatal on the running sub-test
Report(subs, events, fatal) ==
    [subs EXCEPT ![Len(subs)] =
        [@ EXCEPT !.failed  = @ \/ AnyErrors(events),
                  !.aborted = @ \/ fatal,
                  !.errors  = @ \o AllErrors(events)]]

(***************************************************************************)
(* TestSet.Run                                                             *)
(***************************************************************************)
\* the set literal: TestSet{Test(...), Test(...)}
BuildTestSet ==
    /\ pc = "build"
    /\ tests' = [k \in 1..Len(cases) |-> Test(cases[k].name, cases[k].options)]
    /\ cur' = 1
    /\ pc' = "range"
    /\ UNCHANGED <<cases, handler, req, recorder, t, served, log>>

\* for _, test := range tests
RangeHasNext_StopAfterAbort ==
    cur <= Len(tests) /\ \A i \in DOMAIN t : ~t[i].aborted

RangeHasNext == cur <= Len(tests)

\* t.Run(test.name, func(t *testing.T) {...}) starts the sub-test
RunSubtest ==
    /\ pc = "range"
    /\ RangeHasNext
    /\ t' = Append(t, [name |-> tests[cur].name, failed |-> FALSE,
                       aborted |-> FALSE, errors |-> <<>>])
    /\ req' = <<>>
    /\ recorder' = <<>>
    /\ pc' = "precheck"
    /\ UNCHANGED <<cases, handler, tests, cur, served, log>>

RunReturn ==
    /\ pc = "range"
    /\ ~RangeHasNext
    /\ pc' = "done"
    /\ UNCHANGED <<cases, handler, tests, cur, req, recorder, t, served, log>>

\* for _, check := range test.precheck { check(t) }
Prechecks ==
    /\ pc = "precheck"
    /\ LET r  == ChecksRun(tests[cur].precheck)
           ev == ChecksEvents(cur, "precheck", r.ran)
       IN  /\ log' = log \o ev
           /\ t' = Report(t, ev, r.fatal)
           /\ pc' = IF r.fatal THEN "range" ELSE "NewRequest"
           /\ cur' = IF r.fatal THEN cur + 1 ELSE cur
    /\ UNCHANGED <<cases, handler, tests, req, recorder, served>>

\* req, err := http.NewRequest(...); if err != nil { t.Fatal(err) }
NewRequest_NoAbort ==
    /\ pc = "NewRequest"
    /\ LET test == tests[cur]
           err  == NewRequestErr(test.method, test.route)
           ev   == <<Event(cur, "NewRequest", 0, IF err THEN <<"err">> ELSE <<>>)>>
       IN  /\ log' = log \o ev
           /\ t' = Report(t, ev, FALSE)
           /\ req' = <<NewRequestValue(test.method, test.route, test.body)>>
           /\ pc' = "modifiers"
           /\ cur' = cur
    /\ UNCHANGED <<cases, handler, tests, recorder, served>>

NewRequest ==
    /\ pc = "NewRequest"
    /\ LET test == tests[cur]
           err  == NewRequestErr(test.method, test.route)
           ev   == <<Event(cur, "NewRequest", 0, IF err THEN <<"err">> ELSE <<>>)>>
       IN  /\ log' = log \o ev
           /\ t' = Report(t, ev, err)
           /\ req' = IF err THEN <<>>
                     ELSE <<NewRequestValue(test.method, test.route, test.body)>>
           /\ pc' = IF err THEN "range" ELSE "modifiers"
           /\ cur' = IF err THEN cur + 1 ELSE cur
    /\ UNCHANGED <<cases, handler, tests, recorder, served>>

\* for _, modifier := range test.modifiers { modifier(req) }
Modifiers ==
    /\ pc = "modifiers"
    /\ LET ms == tests[cur].modifiers
       IN  /\ req' = <<ApplyModifiers(ms, 1, req[1])>>
           /\ log' = log \o [i \in 1..Len(ms) |-> Event(cur, "modifier", ms[i].id, <<>>)]
    /\ pc' = "ServeHTTP"
    /\ UNCHANGED <<cases, handler, tests, cur, recorder, t, served>>

\* recorder := httptest.NewRecorder(); handler.ServeHTTP(recorder, req)
ServeHTTP ==
    /\ pc = "ServeHTTP"
    /\ recorder' = <<[Code |-> handler.Code, Body |-> handler.Body,
                      Header |-> handler.Header]>>
    /\ served' = Append(served, [case |-> cur, req |-> req[1]])
    /\ log' = Append(log, Event(cur, "ServeHTTP", 0, <<>>))
    /\ pc' = "assertions"
    /\ UNCHANGED <<cases, handler, tests, cur, req, t>>

\* for _, assert := range test.assertions { assert(t, recorder) }
Assertions ==
    /\ pc = "assertions"
    /\ LET ev == RunAssertions(cur, tests[cur].assertions, recorder[1])
       IN  /\ log' = log \o ev
           /\ t' = Report(t, ev, FALSE)
    /\ pc' = "postcheck"
    /\ UNCHANGED <<cases, handler, tests, cur, req, recorder, served>>

\* for _, check := range test.postcheck { check(t) }, and the sub-test ends
Postchecks ==
    /\ pc = "postcheck"
    /\ LET r  == ChecksRun(tests[cur].postcheck)
           ev == ChecksEvents(cur, "postcheck", r.ran)
       IN  /\ log' = log \o ev
           /\ t' = Report(t, ev, r.fatal)
    /\ pc' = "range"
    /\ cur' = cur + 1
    /\ UNCHANGED <<cases, handler, tests, req, recorder, served>>

Next ==
    \/ BuildTestSet
    \/ RunSubtest
    \/ RunReturn
    \/ Prechecks
    \/ NewRequest
    \/ Modifiers
    \/ ServeHTTP
    \/ Assertions
    \/ Postchecks

(***************************************************************************)
(* Inputs.  Each specification draws the Test(...) argument lists and the  *)
(* handler from the pool of its subject.                                   *)
(***************************************************************************)
InitWith(caseSets, handlers) ==
    /\ cases \in caseSets
    /\ handler \in handlers
    /\ tests = <<>>
    /\ pc = "build"
    /\ cur = 0
    /\ req = <<>>
    /\ recorder = <<>>
    /\ t = <<>>
    /\ served = <<>>
    /\ log = <<>>

JsonHeader == [x \in {"Content-Type"} |-> "application/json"]

Handler(code, body, header) == [Code |-> code, Body |-> body, Header |-> header]

SingleCase(pool) ==
    {<<[name |-> "RejectGET405", options |-> os]>> : os \in SeqsUpTo(pool, MaxOptions)}

\* Spec: sets of several cases, each with or without a malformed route, a
\* header modifier and a status assertion
RunLists ==
    {SelectSeq(<<Opt("RequestRel", "%zz", "", 0, "", <<>>),
                 Opt("RequestHeader", "X", "1", 0, "", <<>>),
                 Opt("ResponseStatus", "", "", 200, "", <<>>)>>,
               LAMBDA o : o.op \in keep) :
        keep \in SUBSET {"RequestRel", "RequestHeader", "ResponseStatus"}}

RunCases ==
    UNION {[1..n -> [name : {"RejectGET405", "AcceptPOST"}, options : RunLists]] :
             n \in 0..MaxCases}

RunHandlers == {Handler(200, "ok", EmptyHeader), Handler(405, "ok", EmptyHeader)}

Init == InitWith(RunCases, RunHandlers)

Spec == Init /\ [][Next]_vars

\* SpecHooks: one case with Before and After checks
HookPool ==
    {Opt("Before", "", "", 0, out, <<>>) : out \in {"pass", "fail", "fatal"}}
    \cup {Opt("After", "", "", 0, out, <<>>) : out \in {"pass", "fail"}}
    \cup {Opt("ResponseStatus", "", "", 200, "", <<>>),
          Opt("RequestRel", "%zz", "", 0, "", <<>>)}

InitHooks == InitWith(SingleCase(HookPool), RunHandlers)

SpecHooks == InitHooks /\ [][Next]_vars

\* SpecAssert: one case with response assertions
AssertPool ==
    {Opt("ResponseStatus", "", "", n, "", <<>>) : n \in {200, 405}}
    \cup {Opt("ResponseBody", "{}", "", 0, "", <<>>),
          Opt("ResponseHeader", "content-type", "application/json", 0, "", <<>>),
          Opt("ResponseJsonField", "K", "", 0, "", <<"a", "b">>)}
    \cup {Opt("ResponseJsonFieldPattern", "K", "", 0, "", p) :
            p \in {<<"b">>, <<"^", "b">>, <<"a", ".", "$">>, <<"(">>}}
    \cup {Opt("ResponseJsonFieldPattern", "M", "", 0, "", <<"b">>)}
    \cup {Opt("RequestMethod", m, "", 0, "", <<>>) : m \in {"GET", "BAD METHOD"}}
    \cup {Opt("RequestRel", "%zz", "", 0, "", <<>>)}

AssertHandlers ==
    {Handler(code, body, header) :
        code \in {200, 405},
        body \in {"{\"K\":\"ab\"}", "{\"K\":\"b\"}", "{\"K\":7}", "{}", "[1]", "not json"},
        header \in {EmptyHeader}}
    \cup {Handler(200, "{}", JsonHeader)}

InitAssert == InitWith(SingleCase(AssertPool), AssertHandlers)

SpecAssert == InitAssert /\ [][Next]_vars

\* SpecModifiers: one case with request-shaping options
ModifierPool ==
    {Opt("RequestHeader", "X", "1", 0, "", <<>>),
     Opt("RequestHeader", "content-type", "text/plain", 0, "", <<>>),
     Opt("RequestHeader", "Content-Type", "text/html", 0, "", <<>>),
     Opt("RequestJSON", "obj", "", 0, "", <<>>),
     Opt("RequestBody", "raw", "", 0, "", <<>>),
     Opt("RequestRel", "/abc", "", 0, "", <<>>)}

InitModifiers == InitWith(SingleCase(ModifierPool), RunHandlers)

SpecModifiers == InitModifiers /\ [][Next]_vars

(***************************************************************************)
(* Vocabulary of the properties.                                           *)
(***************************************************************************)
\* sub-test c has returned
Ended(c) == c \in DOMAIN t /\ (c < Len(t) \/ pc \in {"range", "done"})

\* where in the log Run executed steps of kind ev for case c
Pos(c, evs) == {i \in DOMAIN log : log[i].case = c /\ log[i].ev \in evs}

AllBefore(A, B) == \A i \in A, j \in B : i < j

\* the ids Run executed for case c in steps of kind evs, in execution order
RanIds(c, evs) ==
    LET L == SelectSeq(log, LAMBDA e : e.case = c /\ e.ev \in evs)
    IN  [i \in 1..Len(L) |-> L[i].id]

\* the positions of the options of case c that are among ops, in the order
\* the options were given to Test
OptionIds(c, ops) ==
    LET os == cases[c].options
    IN  SelectSeq([k \in 1..Len(os) |-> k], LAMBDA k : os[k].op \in ops)

AssertionOps ==
    {"ResponseStatus", "ResponseBody", "ResponseHeader",
     "ResponseJsonField", "ResponseJsonFieldPattern"}

ModifierOps == {"RequestHeader", "RequestJSON"}

\* the method and route the last RequestMethod / RequestRel option of case c
\* asked for, and whether a request can be constructed from them
LastArg(c, op) ==
    LET ids == OptionIds(c, {op})
    IN  IF ids = <<>> THEN "" ELSE cases[c].options[ids[Len(ids)]].s1

Constructible(c) ==
    /\ LastArg(c, "RequestMethod") \in {"", "GET", "POST"}
    /\ LastArg(c, "RequestRel") \in {"", "/abc"}

NoFatalCheck(c) == \A o \in Range(cases[c].options) : o.out # "fatal"

(***************************************************************************)
(* C1.  Every check registered with After is executed exactly once for     *)
(* its case, after the handler dispatch and after all response assertions  *)
(* of the case, in registration order.  (Stated for sub-tests no t.Fatal   *)
(* cut short.)                                                             *)
(***************************************************************************)
C1_AfterChecksRunOnceAfterAssertions ==
    \A c \in DOMAIN t :
        (Ended(c) /\ ~t[c].aborted) =>
            LET afters == OptionIds(c, {"After"})
                ran    == SelectSeq(RanIds(c, {"precheck", "postcheck"}),
                                    LAMBDA k : k \in Range(afters))
            IN  /\ ran = afters
                /\ \A i \in Pos(c, {"precheck", "postcheck"}) :
                      log[i].id \in Range(afters) =>
                          AllBefore(Pos(c, {"ServeHTTP", "assertion"}), {i})

(***************************************************************************)
(* C2.  Every check registered with Before is executed exactly once for    *)
(* its case, before the request is constructed, in registration order,     *)
(* whatever Before and After options are interleaved with it: no later     *)
(* option removes a registered pre-check.  (Stated for cases none of whose *)
(* checks calls t.Fatal.)                                                  *)
(***************************************************************************)
C2_BeforeChecksRunOnceBeforeRequest ==
    \A c \in DOMAIN t :
        (Ended(c) /\ NoFatalCheck(c)) =>
            LET befores == OptionIds(c, {"Before"})
                ran     == SelectSeq(RanIds(c, {"precheck", "postcheck"}),
                                     LAMBDA k : k \in Range(befores))
            IN  /\ ran = befores
                /\ \A i \in Pos(c, {"precheck", "postcheck"}) :
                      log[i].id \in Range(befores) =>
                          AllBefore({i}, Pos(c, {"NewRequest"}))

(***************************************************************************)
(* C3.  Run starts one sub-test per case, named with the case's name, in   *)
(* the declared order and one at a time; when Run returns it has started   *)
(* exactly as many sub-tests as the set has cases, whatever the outcome of *)
(* any case.                                                               *)
(***************************************************************************)
C3_OneSubtestPerCaseInOrder ==
    /\ Len(t) <= Len(cases)
    /\ \A i \in DOMAIN t : t[i].name = cases[i].name
    /\ \A i \in DOMAIN log : log[i].case \in DOMAIN t
    /\ \A i, j \in DOMAIN log : i < j => log[i].case <= log[j].case
    /\ \A c \in DOMAIN t : c < Len(t) => Ended(c)
    /\ pc = "done" => Len(t) = Len(cases)

C3_Witness ==
    /\ pc = "done"
    /\ Len(t) = 2
    /\ t[1].aborted
    /\ t[1].name # t[2].name
    /\ t[2].failed /\ ~t[2].aborted

(***************************************************************************)
(* C4.  For a case whose only check is ResponseStatus(E), run against a    *)
(* handler that always answers with status S, the sub-test is marked       *)
(* failed if and only if E differs from S.                                 *)
(***************************************************************************)
StatusOnly(c) ==
    /\ Len(OptionIds(c, AssertionOps)) = 1
    /\ Len(OptionIds(c, {"ResponseStatus"})) = 1
    /\ OptionIds(c, {"Before", "After"}) = <<>>

ExpectedStatus(c) == cases[c].options[OptionIds(c, {"ResponseStatus"})[1]].n

C4_StatusOnlyFailsIffDifferent ==
    \A c \in DOMAIN t :
        (Ended(c) /\ StatusOnly(c)) =>
            (t[c].failed <=> ExpectedStatus(c) # handler.Code)

\* C4 as amended: the same, for a case whose request construction succeeds.
C4_StatusOnlyFailsIffDifferentWhenConstructed ==
    \A c \in DOMAIN t :
        (Ended(c) /\ StatusOnly(c) /\ Constructible(c)) =>
            (t[c].failed <=> ExpectedStatus(c) # handler.Code)

C4_Witness ==
    /\ pc = "done"
    /\ cases = <<[name |-> "RejectGET405",
                  options |-> <<Opt("RequestMethod", "GET", "", 0, "", <<>>),
                                Opt("ResponseStatus", "", "", 405, "", <<>>)>>]>>
    /\ handler.Code = 405
    /\ Len(served) = 1 /\ served[1].req.Method = "GET"
    /\ ~t[1].failed

(***************************************************************************)
(* C5.  A case with no response assertion registered, whose request        *)
(* construction succeeds, always reports success, for every handler        *)
(* response and every other option of the case.                            *)
(***************************************************************************)
C5_NoAssertionsAlwaysSucceeds ==
    \A c \in DOMAIN t :
        (Ended(c) /\ OptionIds(c, AssertionOps) = <<>> /\ Constructible(c)) =>
            ~t[c].failed

\* no Before/After check that Run executed for case c reported a failure
NoCheckFailed(c) ==
    \A i \in Pos(c, {"precheck", "postcheck"}) : log[i].errs = <<>>

\* C5 as amended: the same, provided no executed Before/After check
\* reported a failure.
C5_NoAssertionsSucceedsUnlessCheckFails ==
    \A c \in DOMAIN t :
        (Ended(c) /\ OptionIds(c, AssertionOps) = <<>> /\ Constructible(c)
                  /\ NoCheckFailed(c)) =>
            ~t[c].failed

C5_Witness ==
    /\ pc = "done"
    /\ Len(t) = 1
    /\ OptionIds(1, AssertionOps) = <<>>
    /\ Pos(1, {"precheck", "postcheck"}) # {}
    /\ NoCheckFailed(1)
    /\ handler.Code = 405
    /\ Len(served) = 1
    /\ ~t[1].failed

(***************************************************************************)
(* C6.  When request construction succeeds, Run dispatches the handler     *)
(* once and then executes every response assertion of the case exactly     *)
(* once, in the order the options were given; an assertion that reports a  *)
(* failure does not stop the later ones.                                   *)
(***************************************************************************)
AssertionsDone(c) ==
    Ended(c) \/ (c = Len(t) /\ pc = "postcheck")

C6_AssertionsAllRunOnceInOrder ==
    \A c \in DOMAIN t :
        (AssertionsDone(c) /\ Constructible(c)) =>
            /\ Cardinality(Pos(c, {"ServeHTTP"})) = 1
            /\ Cardinality({i \in DOMAIN served : served[i].case = c}) = 1
            /\ RanIds(c, {"assertion"}) = OptionIds(c, AssertionOps)
            /\ AllBefore(Pos(c, {"ServeHTTP"}), Pos(c, {"assertion"}))
            /\ ~t[c].aborted

C6_Witness ==
    /\ pc = "done"
    /\ Len(t) = 1
    /\ Len(OptionIds(1, AssertionOps)) = 2
    /\ LET A == SelectSeq(log, LAMBDA e : e.case = 1 /\ e.ev = "assertion")
       IN  Len(A) = 2 /\ A[1].errs # <<>> /\ A[2].errs = <<>>

(***************************************************************************)
(* C7.  When the response body does not parse as a JSON object, a          *)
(* ResponseJsonField assertion reports the parse failure and skips the     *)
(* field comparison: it reports exactly one failure.                       *)
(***************************************************************************)
NotAJsonObject(body) == body \in {"[1]", "not json"}

C7_ParseFailureReportedAlone ==
    \A i \in DOMAIN log :
        (/\ log[i].ev = "assertion"
         /\ cases[log[i].case].options[log[i].id].op = "ResponseJsonField"
         /\ NotAJsonObject(handler.Body)) =>
            log[i].errs = <<"Could not JSON parse response body">>

(***************************************************************************)
(* C8.  The modifiers registered by RequestHeader and RequestJSON are each *)
(* applied exactly once, to the constructed request and before dispatch,   *)
(* in the order of their options; so every header set by some option is on *)
(* the dispatched request, with the value of the last option that set it.  *)
(***************************************************************************)
\* the header an option sets (header names do not distinguish case) and
\* the value it gives it
HeaderOf(o) ==
    IF o.op = "RequestJSON" \/ o.s1 \in {"content-type", "Content-Type"}
    THEN "Content-Type" ELSE o.s1

ValueOf(o) == IF o.op = "RequestJSON" THEN "application/json" ELSE o.s2

C8_ModifiersAppliedInOrderLastWins ==
    \A s \in DOMAIN served :
        LET c   == served[s].case
            os  == cases[c].options
            ids == OptionIds(c, ModifierOps)
            h   == served[s].req.Header
        IN  /\ RanIds(c, {"modifier"}) = ids
            /\ AllBefore(Pos(c, {"NewRequest"}), Pos(c, {"modifier"}))
            /\ AllBefore(Pos(c, {"modifier"}), Pos(c, {"ServeHTTP"}))
            /\ DOMAIN h = {HeaderOf(os[k]) : k \in Range(ids)}
            /\ \A k \in Range(ids) :
                  (\A k2 \in Range(ids) : HeaderOf(os[k2]) = HeaderOf(os[k]) => k2 <= k)
                      => h[HeaderOf(os[k])] = ValueOf(os[k])

C8_Witness ==
    /\ Len(served) = 1
    /\ cases[1].options = <<Opt("RequestJSON", "obj", "", 0, "", <<>>),
                            Opt("RequestHeader", "content-type", "text/plain", 0, "", <<>>)>>
    /\ served[1].req.Header = [x \in {"Content-Type"} |-> "text/plain"]
    /\ served[1].req.Body = "{\"a\":1}"

(***************************************************************************)
(* C9.  If constructing the request of a case fails, its sub-test is       *)
(* marked failed and aborted at once: no modifier is applied, the handler  *)
(* is not dispatched and no response assertion runs for that case; every   *)
(* later case of the set is still run in full.                             *)
(***************************************************************************)
RunInFull(c) ==
    /\ c \in DOMAIN t
    /\ Cardinality(Pos(c, {"NewRequest"})) = 1
    /\ Constructible(c) =>
          /\ RanIds(c, {"modifier"}) = OptionIds(c, ModifierOps)
          /\ Cardinality(Pos(c, {"ServeHTTP"})) = 1
          /\ RanIds(c, {"assertion"}) = OptionIds(c, AssertionOps)

C9_ConstructionFailureAbortsOnlyThatCase ==
    \A c \in DOMAIN t :
        (~Constructible(c) /\ Pos(c, {"NewRequest"}) # {}) =>
            /\ t[c].failed
            /\ t[c].aborted
            /\ Pos(c, {"modifier", "ServeHTTP", "assertion", "postcheck"}) = {}
            /\ \A s \in DOMAIN served : served[s].case # c
            /\ (c = Len(t)) => pc \in {"range", "done"}
            /\ pc = "done" => \A c2 \in (c + 1)..Len(cases) : RunInFull(c2)

C9_Witness ==
    /\ pc = "done"
    /\ Len(cases) = 2
    /\ ~Constructible(1)
    /\ Len(OptionIds(1, ModifierOps)) = 1
    /\ Len(OptionIds(1, AssertionOps)) = 1
    /\ t[1].aborted
    /\ Constructible(2)
    /\ Len(OptionIds(2, AssertionOps)) = 1
    /\ Len(served) = 1 /\ served[1].case = 2
    /\ RanIds(2, {"assertion"}) = OptionIds(2, AssertionOps)

(***************************************************************************)
(* C10.  A ResponseJsonFieldPattern(K, P) assertion reports a non-fatal    *)
(* failure whenever the value at K is missing or is not a JSON string, for *)
(* every P; when the value is a string it reports a failure if and only if *)
(* P matches nowhere in the string.                                        *)
(***************************************************************************)
\* the string at key K of the response body, as <<s>>, or <<>> when the
\* body has no string there
StringAt(body, K) ==
    IF K = "K" /\ body = "{\"K\":\"ab\"}" THEN << <<"a", "b">> >>
    ELSE IF K = "K" /\ body = "{\"K\":\"b\"}" THEN << <<"b">> >>
    ELSE <<>>

\* P matches the whole of s
MatchesAll(P, s) ==
    /\ Len(P) = Len(s)
    /\ \A j \in 1..Len(P) : P[j] = "." \/ P[j] = s[j]

\* P, a valid pattern, matches a substring of s (one starting s when P
\* begins with "^", one ending s when P ends with "$")
MatchesSomewhere(P, s) ==
    /\ \A j \in 1..Len(P) : P[j] # "("
    /\ LET core == SelectSeq(P, LAMBDA x : x # "^" /\ x # "$")
       IN  \E i \in 1..(Len(s) + 1), j \in 0..Len(s) :
              /\ MatchesAll(core, SubSeq(s, i, j))
              /\ (P # <<>> /\ Head(P) = "^") => i = 1
              /\ (P # <<>> /\ P[Len(P)] = "$") => j = Len(s)

C10_PatternAssertionFailsIffNoMatch ==
    \A i \in DOMAIN log :
        (/\ log[i].ev = "assertion"
         /\ cases[log[i].case].options[log[i].id].op = "ResponseJsonFieldPattern") =>
            LET o == cases[log[i].case].options[log[i].id]
                v == StringAt(handler.Body, o.s1)
            IN  /\ ~t[log[i].case].aborted
                /\ IF v = <<>> THEN log[i].errs # <<>>
                   ELSE (log[i].errs # <<>> <=> ~MatchesSomewhere(o.p, v[1]))

C10_Witness ==
    /\ pc = "done"
    /\ handler.Body = "{\"K\":\"ab\"}"
    /\ cases[1].options = <<Opt("ResponseJsonFieldPattern", "K", "", 0, "", <<"b">>),
                            Opt("ResponseJsonFieldPattern", "K", "", 0, "", <<"^", "b">>)>>
    /\ Len(log) = 4
    /\ log[3].errs = <<>>
    /\ log[4].errs = <<"Unexpected JSON field value">>

====
